---- MODULE Spec2Model ----
(***************************************************************************)
(* FSICFR (Fixed-Strategy-Iteration CFR) trainers for Liar Die.            *)
(*                                                                         *)
(* Four trainers of the repository are modelled side by side:              *)
(*   "FSICFR"            src/FSICFR.py             (class Node)            *)
(*   "FSICFR_refactored" src/FSICFR_refactored.py  (class Node)            *)
(*   "liar_die"          src/liar_die.py           (SequentialStrategy-    *)
(*                       Manager of sequantial_strategy_manager.py)        *)
(*   "liar_die_copy"     src/liar_die_copy.py      (SequentialStrategy-    *)
(*                       Manager of sequantial_strategy_manager_copy.py)   *)
(*                                                                         *)
(* Python floats are modelled as exact rationals <<numerator, denominator>>*)
(* in lowest terms with a positive denominator.  Python indices are kept   *)
(* for node keys and for the draw array (0-based); action vectors are TLA+ *)
(* sequences, so action index a of the source is position a + 1 here.      *)
(* The fields p_player / p_opponent / u of FSICFR.Node are the fields      *)
(* my_reach / opp_reach / util of the strategy managers; the model uses    *)
(* the latter names for every trainer.                                     *)
(*                                                                         *)
(* History variables, which no step of a trainer reads: draws_log is the   *)
(* sequence of draw arrays of the iterations run so far, util_fresh the    *)
(* set of nodes whose utility the backward pass of the current iteration   *)
(* has computed, unreached_at_visit the set of response nodes the forward  *)
(* response step of the current iteration found unreached.  lookup is a    *)
(* node lookup made on a constructed trainer and its outcome.  abandoned   *)
(* is the draw array of an iteration that an exception ended, <<>> while   *)
(* no iteration was abandoned.                                             *)
(***************************************************************************)
EXTENDS Integers, Sequences, FiniteSets, TLC

VARIABLES variant, sides, iterations, iter, pc, level, roll,
          response_nodes, claim_nodes, reset_count, draws_log, lookup,
          util_fresh, unreached_at_visit, abandoned

vars == <<variant, sides, iterations, iter, pc, level, roll,
          response_nodes, claim_nodes, reset_count, draws_log, lookup,
          util_fresh, unreached_at_visit, abandoned>>

(***************************************************************************)
(* Bounds of the model.                                                    *)
(***************************************************************************)
MaxSides == 3
MaxIter == 3
\* sides * iterations of one run of train() stays within MaxWork
MaxWork == 6
MaxActions == 3
MaxRegret == 2
\* sides * iterations of a run of train() on a trainer whose iterations
\* may be abandoned stays within MaxHealWork
MaxHealWork == 2

Variants == {"FSICFR", "FSICFR_refactored", "liar_die", "liar_die_copy"}

(***************************************************************************)
(* Program constants.                                                      *)
(***************************************************************************)
DOUBT == 0
ACCEPT == 1
MAX_SIDES_LIMIT == 20

(***************************************************************************)
(* Exact rational arithmetic standing for float arithmetic.                *)
(***************************************************************************)
Abs(x) == IF x < 0 THEN -x ELSE x

RECURSIVE GCD(_, _)
GCD(a, b) == IF b = 0 THEN a ELSE GCD(b, a % b)

Rat(n, d) == LET g == GCD(Abs(n), d) IN <<n \div g, d \div g>>

Zero == <<0, 1>>
One == <<1, 1>>

RAdd(a, b) == Rat(a[1] * b[2] + b[1] * a[2], a[2] * b[2])
RNeg(a) == <<-a[1], a[2]>>
RSub(a, b) == RAdd(a, RNeg(b))
RMul(a, b) == Rat(a[1] * b[1], a[2] * b[2])
RDiv(a, b) == IF b[1] > 0 THEN Rat(a[1] * b[2], a[2] * b[1])
                          ELSE Rat(-(a[1] * b[2]), -(a[2] * b[1]))
RPos(a) == a[1] > 0
RLeq(a, b) == a[1] * b[2] <= b[1] * a[2]
RMax0(a) == IF a[1] > 0 THEN a ELSE Zero

Zeros(n) == [a \in 1..n |-> Zero]

RECURSIVE SumTo(_, _)
SumTo(v, i) == IF i = 0 THEN Zero ELSE RAdd(SumTo(v, i - 1), v[i])
VSum(v) == SumTo(v, Len(v))

Maximum0(v) == [a \in 1..Len(v) |-> RMax0(v[a])]
AllZero(v) == \A a \in 1..Len(v) : v[a] = Zero
IsProbabilityVector(v) ==
    /\ \A a \in 1..Len(v) : RLeq(Zero, v[a])
    /\ VSum(v) = One

(***************************************************************************)
(* A node (information set).  FSICFR.Node and both strategy managers hold  *)
(* the same fields.                                                        *)
(***************************************************************************)
Node(num_actions) ==
    [num_actions  |-> num_actions,
     regret_sum   |-> Zeros(num_actions),
     strategy     |-> Zeros(num_actions),
     strategy_sum |-> Zeros(num_actions),
     util         |-> Zero,
     my_reach     |-> Zero,
     opp_reach    |-> Zero]

\* Variant of AccumulateStrategySum that adds the strategy unweighted.
AccumulateStrategySum_unweighted(node, strategy) ==
    [node EXCEPT !.strategy = strategy,
                 !.strategy_sum = [a \in 1..Len(strategy) |->
                     RAdd(node.strategy_sum[a], strategy[a])]]

AccumulateStrategySum(node, strategy) ==
    [node EXCEPT !.strategy = strategy,
                 !.strategy_sum = [a \in 1..Len(strategy) |->
                     RAdd(node.strategy_sum[a], RMul(node.my_reach, strategy[a]))]]

\* Variant of Node_get_strategy without the uniform fallback.
Node_get_strategy_no_fallback(node) ==
    LET positive == Maximum0(node.regret_sum)
        normalizing_sum == VSum(positive)
        strategy == IF RPos(normalizing_sum)
                    THEN [a \in 1..Len(positive) |-> RDiv(positive[a], normalizing_sum)]
                    ELSE Zeros(node.num_actions)
    IN  AccumulateStrategySum(node, strategy)

\* FSICFR.Node.get_strategy (the same text in FSICFR_refactored.py)
Node_get_strategy(node) ==
    LET positive == Maximum0(node.regret_sum)
        normalizing_sum == VSum(positive)
        strategy == IF RPos(normalizing_sum)
                    THEN [a \in 1..Len(positive) |-> RDiv(positive[a], normalizing_sum)]
                    ELSE [a \in 1..node.num_actions |-> Rat(1, node.num_actions)]
    IN  AccumulateStrategySum(node, strategy)

\* FSICFR.Node.get_average_strategy
Node_get_average_strategy(node) ==
    LET normalizing_sum == VSum(node.strategy_sum)
    IN  IF RPos(normalizing_sum)
        THEN [a \in 1..Len(node.strategy_sum) |-> RDiv(node.strategy_sum[a], normalizing_sum)]
        ELSE [a \in 1..node.num_actions |-> Rat(1, node.num_actions)]

\* sequantial_strategy_manager.py
SM_normalize(array) ==
    LET positive_array == Maximum0(array)
        norm == VSum(positive_array)
    IN  IF norm # Zero
        THEN [a \in 1..Len(array) |-> RDiv(positive_array[a], norm)]
        ELSE Zeros(Len(positive_array))

SM_get_uniform_strategy(node) ==
    [a \in 1..node.num_actions |-> Rat(1, node.num_actions)]

\* Variant of SM_get_strategy without the uniform fallback.
SM_get_strategy_no_fallback(node) ==
    AccumulateStrategySum(node, SM_normalize(node.regret_sum))

SM_get_strategy(node) ==
    LET new_strategy == SM_normalize(node.regret_sum)
        strategy == IF AllZero(new_strategy) THEN SM_get_uniform_strategy(node)
                                             ELSE new_strategy
    IN  AccumulateStrategySum(node, strategy)

SM_get_average_strategy(node) ==
    LET normalizing_sum == VSum(node.strategy_sum)
    IN  IF RPos(normalizing_sum)
        THEN [a \in 1..Len(node.strategy_sum) |-> RDiv(node.strategy_sum[a], normalizing_sum)]
        ELSE SM_get_uniform_strategy(node)

\* sequantial_strategy_manager_copy.py
SMCopy_normalize(array) ==
    LET norm == VSum(Maximum0(array))
    IN  IF norm # Zero
        THEN [a \in 1..Len(array) |-> RDiv(array[a], norm)]
        ELSE Zeros(Len(array))

SMCopy_get_strategy(node) ==
    LET new_strategy == SMCopy_normalize(Maximum0(node.regret_sum))
        strategy == IF AllZero(node.regret_sum)
                    THEN [a \in 1..node.num_actions |-> Rat(1, node.num_actions)]
                    ELSE new_strategy
    IN  AccumulateStrategySum(node, strategy)

SMCopy_get_average_strategy(node) == SMCopy_normalize(node.strategy_sum)

\* The node class each trainer instantiates.
get_strategy(v, node) ==
    CASE v = "liar_die"      -> SM_get_strategy(node)
      [] v = "liar_die_copy" -> SMCopy_get_strategy(node)
      [] OTHER               -> Node_get_strategy(node)

get_average_strategy(v, node) ==
    CASE v = "liar_die"      -> SM_get_average_strategy(node)
      [] v = "liar_die_copy" -> SMCopy_get_average_strategy(node)
      [] OTHER               -> Node_get_average_strategy(node)

(***************************************************************************)
(* Construction.  A constructor yields the two node tables, or fails.      *)
(* np.empty raises ValueError on a negative dimension.                     *)
(***************************************************************************)
NoNodes == [k \in {} |-> Node(0)]
Failed == [err |-> TRUE, r |-> NoNodes, c |-> NoNodes]

ResponseKeys(my_claims, s) ==
    {k \in my_claims \X (0..s) : k[2] \in (k[1] + 1)..s}
\* Variant of ClaimKeys with roll ranging over range(sides + 1).
ClaimKeys_roll_from_zero(s) == (0..(s - 1)) \X (0..s)

ClaimKeys(s) == (0..(s - 1)) \X (1..s)

\* FSICFR.LiarDieTrainer.__init__
FSICFR_init(s) ==
    IF s + 1 < 0 THEN Failed
    ELSE [err |-> FALSE,
          r |-> [k \in ResponseKeys(0..(s - 1), s) |->
                   Node(IF k[2] = 0 \/ k[2] = s THEN 1 ELSE 2)],
          c |-> [k \in ClaimKeys(s) |-> Node(s - k[1])]]

\* FSICFR_refactored.LiarDieTrainer.__init__
Refactored_init(s) ==
    IF s + 1 < 0 THEN Failed
    ELSE [err |-> FALSE,
          r |-> [k \in ResponseKeys(0..(s - 1), s) |->
                   Node(IF k[2] # 0 /\ k[2] # s THEN 2 ELSE 1)],
          c |-> [k \in ClaimKeys(s) |-> Node(s - k[1])]]

\* liar_die.LiarDieTrainer.__init__ ; the action lists are
\* [ACCEPT], [DOUBT] or [DOUBT, ACCEPT] and list(range(opponent_claim + 1, sides + 1))
LiarDie_init(s) ==
    IF s <= 0 THEN Failed
    ELSE IF s > MAX_SIDES_LIMIT THEN Failed
    ELSE [err |-> FALSE,
          r |-> [k \in ResponseKeys(0..s, s) |->
                   Node(IF k[2] = 0 THEN 1 ELSE IF k[2] = s THEN 1 ELSE 2)],
          c |-> [k \in ClaimKeys(s) |-> Node(Cardinality((k[1] + 1)..s))]]

\* liar_die_copy.LiarDieTrainer.__init__
LiarDieCopy_init(s) ==
    IF s + 1 < 0 \/ s < 0 THEN Failed
    ELSE [err |-> FALSE,
          r |-> [k \in ResponseKeys(0..s, s) |->
                   Node(IF k[2] = 0 \/ k[2] = s THEN 1 ELSE 2)],
          c |-> [k \in ClaimKeys(s) |-> Node(s - k[1])]]

Trainer_init(v, s) ==
    CASE v = "FSICFR"            -> FSICFR_init(s)
      [] v = "FSICFR_refactored" -> Refactored_init(s)
      [] v = "liar_die"          -> LiarDie_init(s)
      [] v = "liar_die_copy"     -> LiarDieCopy_init(s)

(***************************************************************************)
(* Chance fixing.                                                          *)
(***************************************************************************)
\* Length of the draw array: sides + 1 in FSICFR.py (roll_after_accepting_claim)
\* and FSICFR_refactored.py (roll_fix), sides in liar_die.py and
\* liar_die_copy.py (fixed_roll).
DrawCount(v, s) ==
    CASE v = "FSICFR"            -> s + 1
      [] v = "FSICFR_refactored" -> s + 1
      [] v = "liar_die"          -> s
      [] v = "liar_die_copy"     -> s

DrawArrays(v, s) == [0..(DrawCount(v, s) - 1) -> 1..s]

\* SequentialStrategyManager.initialize_reach_probabilities(1.0, 1.0); the
\* other trainers assign the two fields of the root in place.
initialize_reach_probabilities(node) ==
    [node EXCEPT !.my_reach = One, !.opp_reach = One]

SeedRoot(c, draws) ==
    [c EXCEPT ![<<0, draws[0]>>] = initialize_reach_probabilities(@)]

(***************************************************************************)
(* Helpers shared by the passes.                                           *)
(***************************************************************************)
Unreached(node) == node.my_reach = Zero /\ node.opp_reach = Zero

\* Variant of update_reach_probability that forwards my_reach unweighted.
update_reach_probability_unweighted(node, next_node, action_prob, action_index) ==
    [next_node EXCEPT
        !.my_reach  = RAdd(@, node.my_reach),
        !.opp_reach = RAdd(@, node.opp_reach)]

\* SequentialStrategyManager.update_reach_probability with both multipliers
\* 1.0; FSICFR.py, FSICFR_refactored.py and liar_die_copy.py write the two
\* '+=' lines in place.  Yields the child node.
update_reach_probability(node, next_node, action_prob, action_index) ==
    [next_node EXCEPT
        !.my_reach  = RAdd(@, RMul(action_prob[action_index + 1], node.my_reach)),
        !.opp_reach = RAdd(@, node.opp_reach)]

\* Variant of reset_reach_probabilities that clears my_reach only.
reset_reach_probabilities_my_only(node) ==
    [node EXCEPT !.my_reach = Zero]

reset_reach_probabilities(node) ==
    [node EXCEPT !.my_reach = Zero, !.opp_reach = Zero]

\* Variant of calculate_utility that adds the child utilities unweighted.
calculate_utility_unweighted(node, child_utilities) ==
    [node EXCEPT !.util = VSum([a \in 1..Len(node.strategy) |-> child_utilities[a]])]

\* util = sum of strategy[i] * child_util[i] over i < len(strategy)
calculate_utility(node, child_utilities) ==
    LET terms == [a \in 1..Len(node.strategy) |->
                     RMul(node.strategy[a], child_utilities[a])]
    IN  [node EXCEPT !.util = VSum(terms)]

\* regret_sum[a] += opp_reach * (regret[a] - util) for a < len(strategy)
update_regret_sum(node, regret) ==
    [node EXCEPT !.regret_sum = [a \in 1..Len(node.regret_sum) |->
        IF a <= Len(node.strategy)
        THEN RAdd(node.regret_sum[a],
                  RMul(node.opp_reach, RSub(regret[a], node.util)))
        ELSE node.regret_sum[a]]]

\* Variant of BackwardVisit that clears the reach before the regret update.
BackwardVisit_reset_first(node, action_utils) ==
    update_regret_sum(
        calculate_utility(reset_reach_probabilities(node), action_utils), action_utils)

\* One backward visit of a node: utility, regret accumulation, reach reset.
BackwardVisit(node, action_utils) ==
    reset_reach_probabilities(
        update_regret_sum(calculate_utility(node, action_utils), action_utils))

(***************************************************************************)
(* Forward pass, one level step at a time.  Every step operator yields the *)
(* two node tables [r |-> response nodes, c |-> claim nodes].              *)
(***************************************************************************)
\* FSICFR.py, response step of level opp_claim (the loop over my_claim)
RECURSIVE FSICFR_forward_response_loop(_, _, _, _, _, _)
FSICFR_forward_response_loop(r, c, my_claim, opp_claim, rl, s) ==
    IF my_claim >= opp_claim THEN [r |-> r, c |-> c]
    ELSE LET key == <<my_claim, opp_claim>> IN
         IF Unreached(r[key])
         THEN FSICFR_forward_response_loop(r, c, my_claim + 1, opp_claim, rl, s)
         ELSE LET node == Node_get_strategy(r[key])
                  next == <<opp_claim, rl[opp_claim]>>
                  c2 == IF opp_claim < s
                        THEN [c EXCEPT ![next] =
                                update_reach_probability(node, @, node.strategy, ACCEPT)]
                        ELSE c
              IN  FSICFR_forward_response_loop([r EXCEPT ![key] = node], c2,
                                               my_claim + 1, opp_claim, rl, s)

FSICFR_forward_response(r, c, opp_claim, rl, s) ==
    IF opp_claim > 0 THEN FSICFR_forward_response_loop(r, c, 0, opp_claim, rl, s)
                     ELSE [r |-> r, c |-> c]

\* FSICFR.py, claim step of level opp_claim; the child keeps the roles:
\* p_player += next_claim_prob * p_player, p_opponent += p_opponent
FSICFR_forward_claim(r, c, opp_claim, rl, s) ==
    IF opp_claim < s
    THEN LET key == <<opp_claim, rl[opp_claim]>> IN
         IF Unreached(c[key]) THEN [r |-> r, c |-> c]
         ELSE LET node == Node_get_strategy(c[key]) IN
              [r |-> [k \in DOMAIN r |->
                        IF k[1] = opp_claim /\ k[2] \in (opp_claim + 1)..s
                           /\ node.strategy[k[2] - opp_claim] # Zero
                        THEN [r[k] EXCEPT
                                !.my_reach  = RAdd(@, RMul(node.strategy[k[2] - opp_claim],
                                                           node.my_reach)),
                                !.opp_reach = RAdd(@, node.opp_reach)]
                        ELSE r[k]],
               c |-> [c EXCEPT ![key] = node]]
    ELSE [r |-> r, c |-> c]

\* FSICFR_refactored.py _forward_pass, first loop, level opp_clm.  The test
\* 'opp_clm == sides' reads the module-level name sides, which the script
\* sets to the trainer's own sides before it constructs the trainer.
RECURSIVE Refactored_forward_response_loop(_, _, _, _, _, _)
Refactored_forward_response_loop(r, c, my_clm, opp_clm, rl, s) ==
    IF my_clm >= opp_clm THEN [r |-> r, c |-> c]
    ELSE LET key == <<my_clm, opp_clm>> IN
         IF Unreached(r[key]) \/ opp_clm = s
         THEN Refactored_forward_response_loop(r, c, my_clm + 1, opp_clm, rl, s)
         ELSE LET node == Node_get_strategy(r[key])
                  next == <<opp_clm, rl[opp_clm]>>
              IN  Refactored_forward_response_loop(
                      [r EXCEPT ![key] = node],
                      [c EXCEPT ![next] =
                          update_reach_probability(node, @, node.strategy, ACCEPT)],
                      my_clm + 1, opp_clm, rl, s)

Refactored_forward_response(r, c, opp_clm, rl, s) ==
    IF opp_clm = 0 THEN [r |-> r, c |-> c]
                   ELSE Refactored_forward_response_loop(r, c, 0, opp_clm, rl, s)

\* FSICFR_refactored.py _forward_pass, second loop, level opp_clm
Refactored_forward_claim(r, c, opp_clm, rl, s) ==
    IF opp_clm = s THEN [r |-> r, c |-> c]
    ELSE LET key == <<opp_clm, rl[opp_clm]>> IN
         IF Unreached(c[key]) THEN [r |-> r, c |-> c]
         ELSE LET node == Node_get_strategy(c[key]) IN
              [r |-> [k \in DOMAIN r |->
                        IF k[1] = opp_clm /\ k[2] \in (opp_clm + 1)..s
                           /\ node.strategy[k[2] - opp_clm] # Zero
                        THEN [r[k] EXCEPT
                                !.my_reach  = RAdd(@, RMul(node.strategy[k[2] - opp_clm],
                                                           node.my_reach)),
                                !.opp_reach = RAdd(@, node.opp_reach)]
                        ELSE r[k]],
               c |-> [c EXCEPT ![key] = node]]

\* liar_die.py forward_accumulate_response / liar_die_copy.py fwd_acc_response:
\* every response node of the level is visited, reached or not.
RECURSIVE forward_accumulate_response_loop(_, _, _, _, _, _, _)
forward_accumulate_response_loop(v, r, c, my_claim, opponent_claim, fixed_roll, s) ==
    IF my_claim >= opponent_claim THEN [r |-> r, c |-> c]
    ELSE LET key == <<my_claim, opponent_claim>>
             node == get_strategy(v, r[key])
             c2 == IF opponent_claim >= s THEN c
                   ELSE [c EXCEPT ![<<opponent_claim, fixed_roll[opponent_claim]>>] =
                            update_reach_probability(node, @, node.strategy, ACCEPT)]
         IN  forward_accumulate_response_loop(v, [r EXCEPT ![key] = node], c2,
                                              my_claim + 1, opponent_claim, fixed_roll, s)

\* Variant of forward_accumulate_response that runs its loop twice.
forward_accumulate_response_twice(v, r, c, opponent_claim, fixed_roll, s) ==
    IF opponent_claim = 0 THEN [r |-> r, c |-> c]
    ELSE LET once == forward_accumulate_response_loop(v, r, c, 0, opponent_claim,
                                                      fixed_roll, s)
         IN  forward_accumulate_response_loop(v, once.r, once.c, 0, opponent_claim,
                                              fixed_roll, s)

forward_accumulate_response(v, r, c, opponent_claim, fixed_roll, s) ==
    IF opponent_claim = 0 THEN [r |-> r, c |-> c]
    ELSE forward_accumulate_response_loop(v, r, c, 0, opponent_claim, fixed_roll, s)

\* liar_die.py forward_accumulate_claim / liar_die_copy.py fwd_acc_claim:
\* the child swaps the roles: my_reach += opp_reach,
\* opp_reach += claim_probability * my_reach
forward_accumulate_claim(v, r, c, opponent_claim, fixed_roll, s) ==
    IF opponent_claim >= s THEN [r |-> r, c |-> c]
    ELSE LET key == <<opponent_claim, fixed_roll[opponent_claim]>>
             node == get_strategy(v, c[key])
         IN  [r |-> [k \in DOMAIN r |->
                       IF k[1] = opponent_claim /\ k[2] \in (opponent_claim + 1)..s
                          /\ ~RLeq(node.strategy[k[2] - opponent_claim], Zero)
                       THEN [r[k] EXCEPT
                               !.my_reach  = RAdd(@, node.opp_reach),
                               !.opp_reach = RAdd(@, RMul(node.strategy[k[2] - opponent_claim],
                                                          node.my_reach))]
                       ELSE r[k]],
              c |-> [c EXCEPT ![key] = node]]

(***************************************************************************)
(* Backward pass, one level step at a time.                                *)
(***************************************************************************)
\* FSICFR.py: 'continue' on an unreached claim node leaves the body of the
\* level loop, so the response step of that level is not run.
FSICFR_backward_claim_continues(c, opp_claim, rl, s) ==
    opp_claim < s /\ Unreached(c[<<opp_claim, rl[opp_claim]>>])

\* FSICFR.py, claim step of level opp_claim: child_util = -next_node.u
FSICFR_backward_claim(r, c, opp_claim, rl, s) ==
    IF opp_claim < s /\ ~FSICFR_backward_claim_continues(c, opp_claim, rl, s)
    THEN LET key == <<opp_claim, rl[opp_claim]>>
             node_regret == [a \in 1..c[key].num_actions |->
                                RNeg(r[<<opp_claim, opp_claim + a>>].util)]
         IN  [r |-> r, c |-> [c EXCEPT ![key] = BackwardVisit(@, node_regret)]]
    ELSE [r |-> r, c |-> c]

\* FSICFR.py, response step of level opp_claim: the doubt utility compares
\* opp_claim with roll_after_accepting_claim[opp_claim]; accept_util = -next_node.u
FSICFR_response_utils(node, c, opp_claim, rl, s) ==
    LET doubt_util == IF opp_claim > rl[opp_claim] THEN One ELSE RNeg(One)
    IN  [a \in 1..node.num_actions |->
            IF a = DOUBT + 1 THEN doubt_util
            ELSE RNeg(c[<<opp_claim, rl[opp_claim]>>].util)]

FSICFR_backward_response(r, c, opp_claim, rl, s) ==
    IF opp_claim > 0
    THEN [r |-> [k \in DOMAIN r |->
                   IF k[2] = opp_claim /\ ~Unreached(r[k])
                   THEN BackwardVisit(r[k], FSICFR_response_utils(r[k], c, opp_claim, rl, s))
                   ELSE r[k]],
          c |-> c]
    ELSE [r |-> r, c |-> c]

\* FSICFR_refactored.py _backward_pass: the text of FSICFR.py's backward pass
Refactored_backward_claim_continues(c, opp_clm, rl, s) ==
    FSICFR_backward_claim_continues(c, opp_clm, rl, s)
Refactored_backward_claim(r, c, opp_clm, rl, s) ==
    FSICFR_backward_claim(r, c, opp_clm, rl, s)
Refactored_backward_response(r, c, opp_clm, rl, s) ==
    FSICFR_backward_response(r, c, opp_clm, rl, s)

\* liar_die.py backward_propagate_claim / liar_die_copy.py bwd_prop_claim
backward_propagate_claim(r, c, opponent_claim, fixed_roll, s) ==
    IF opponent_claim >= s THEN [r |-> r, c |-> c]
    ELSE LET key == <<opponent_claim, fixed_roll[opponent_claim]>>
             regret == [a \in 1..c[key].num_actions |->
                           RNeg(r[<<opponent_claim, opponent_claim + a>>].util)]
         IN  [r |-> r, c |-> [c EXCEPT ![key] = BackwardVisit(@, regret)]]

\* liar_die.py backward_propagate_response / liar_die_copy.py bwd_prop_response:
\* the doubt utility compares opponent_claim with fixed_roll[my_claim]; the
\* accept utility is the claim node's utility as it is (not negated).
response_regret(k, c, fixed_roll, s) ==
    LET doubt_util == IF k[2] > fixed_roll[k[1]] THEN One ELSE RNeg(One)
    IN  [a \in 1..2 |->
            IF a = DOUBT + 1 THEN doubt_util
            ELSE IF k[2] < s THEN c[<<k[2], fixed_roll[k[2]]>>].util ELSE Zero]

backward_propagate_response(r, c, opponent_claim, fixed_roll, s) ==
    IF opponent_claim = 0 THEN [r |-> r, c |-> c]
    ELSE [r |-> [k \in DOMAIN r |->
                   IF k[2] = opponent_claim
                   THEN BackwardVisit(r[k], response_regret(k, c, fixed_roll, s))
                   ELSE r[k]],
          c |-> c]

\* The nodes whose utility a backward step computes: the claim node of the
\* level unless the level is the last one or FSICFR.py / FSICFR_refactored.py
\* 'continue' on it; every response node of the level, in FSICFR.py and
\* FSICFR_refactored.py the reached ones only.
BackwardClaimVisits(v, c, opp_claim, rl, s) ==
    IF opp_claim >= s THEN {}
    ELSE IF v \in {"FSICFR", "FSICFR_refactored"}
            /\ FSICFR_backward_claim_continues(c, opp_claim, rl, s) THEN {}
    ELSE {<<opp_claim, rl[opp_claim]>>}

BackwardResponseVisits(v, r, opp_claim) ==
    {k \in DOMAIN r : /\ k[2] = opp_claim
                      /\ opp_claim > 0
                      /\ v \in {"FSICFR", "FSICFR_refactored"} => ~Unreached(r[k])}

\* Variant of reset_strategy_sum that clears regret_sum as well.
reset_strategy_sum_and_regret(node) ==
    [node EXCEPT !.strategy_sum = Zeros(Len(@)), !.regret_sum = Zeros(Len(@))]

\* The strategy-sum reset of every trainer: strategy_sum.fill(0.0) on every
\* response node and every claim node.
reset_strategy_sum(node) == [node EXCEPT !.strategy_sum = Zeros(Len(@))]
reset_all_strategy_sums(nodes) == [k \in DOMAIN nodes |-> reset_strategy_sum(nodes[k])]

(***************************************************************************)
(* Control flow of train().  pc is the next step of the trainer, level the *)
(* opponent-claim level the step works on.                                 *)
(***************************************************************************)
\* The step after a forward step.  FSICFR.py, liar_die.py and
\* liar_die_copy.py run one loop over the levels with the response step and
\* then the claim step in its body; FSICFR_refactored.py runs the response
\* steps of all levels and then the claim steps of all levels.
ForwardNext(v, p, L, s) ==
    IF v = "FSICFR_refactored"
    THEN IF p = "fwd_response"
         THEN IF L < s THEN <<"fwd_response", L + 1>> ELSE <<"fwd_claim", 0>>
         ELSE IF L < s THEN <<"fwd_claim", L + 1>> ELSE <<"bwd_claim", s>>
    ELSE IF p = "fwd_response"
         THEN <<"fwd_claim", L>>
         ELSE IF L < s THEN <<"fwd_response", L + 1>> ELSE <<"bwd_claim", s>>

\* The step after a backward step: range(sides, -1, -1), claim step and then
\* response step; continues is TRUE when the claim step left the loop body.
BackwardNext(p, L, continues) ==
    IF p = "bwd_claim" /\ ~continues
    THEN <<"bwd_response", L>>
    ELSE IF L > 0 THEN <<"bwd_claim", L - 1>> ELSE <<"reset", 0>>

\* Variant of LoopNext that runs the loop body once more.
LoopNext_one_more(i, n) == IF i < n THEN "fix" ELSE "done"

\* for iteration in range(iterations): the step after the reset check
LoopNext(i, n) == IF i + 1 < n THEN "fix" ELSE "done"

\* Variant of ResetDue that is true from the midpoint on.
ResetDue_from_midpoint(i, n) == i >= n \div 2

\* if iteration == iterations // 2
ResetDue(i, n) == i = n \div 2

\* No node lookup from outside the passes has been made.
NoLookup == [table |-> "none", key |-> <<0, 0>>, result |-> "none"]

Init ==
    /\ variant \in Variants
    /\ sides \in (-2)..MaxSides
    /\ iterations = 0
    /\ iter = 0
    /\ pc = "new"
    /\ level = 0
    /\ roll = <<>>
    /\ response_nodes = NoNodes
    /\ claim_nodes = NoNodes
    /\ reset_count = 0
    /\ draws_log = <<>>
    /\ lookup = NoLookup
    /\ util_fresh = {}
    /\ unreached_at_visit = {}
    /\ abandoned = <<>>

\* LiarDieTrainer(sides)
Construct ==
    /\ pc = "new"
    /\ LET t == Trainer_init(variant, sides) IN
         /\ pc' = IF t.err THEN "error" ELSE "ready"
         /\ response_nodes' = t.r
         /\ claim_nodes' = t.c
    /\ UNCHANGED <<abandoned, variant, sides, iterations, iter, level, roll, reset_count, draws_log, lookup,
                   util_fresh, unreached_at_visit>>

\* train(iterations) up to the head of its loop; FSICFR.py allocates
\* roll_after_accepting_claim = np.zeros(sides + 1) first.
TrainStart ==
    /\ pc = "ready"
    /\ \E n \in 0..MaxIter :
         /\ sides * n <= MaxWork
         /\ iterations' = n
         /\ pc' = IF n > 0 THEN "fix" ELSE "done"
    /\ iter' = 0
    /\ draws_log' = <<>>
    /\ roll' = IF variant = "FSICFR" THEN [i \in 0..sides |-> 0] ELSE roll
    /\ UNCHANGED <<abandoned, variant, sides, level, response_nodes, claim_nodes, reset_count, lookup,
                   util_fresh, unreached_at_visit>>

\* Variant of FixChance whose root outcome is drawn apart from the draw
\* array of the iteration.
FixChance_root_drawn_apart ==
    /\ pc = "fix"
    /\ IF sides < 1
       THEN /\ pc' = "error"
            /\ UNCHANGED <<roll, claim_nodes, level, draws_log, util_fresh, unreached_at_visit>>
       ELSE \E draws \in DrawArrays(variant, sides) :
            \E root \in DrawArrays(variant, sides) :
              /\ roll' = draws
              /\ draws_log' = Append(draws_log, draws)
              /\ claim_nodes' = SeedRoot(claim_nodes, root)
              /\ pc' = "fwd_response"
              /\ level' = 0
              /\ util_fresh' = {}
              /\ unreached_at_visit' = {}
    /\ UNCHANGED <<abandoned, variant, sides, iterations, iter, response_nodes, reset_count, lookup>>

\* Chance fixing: FSICFR.py lines 151-161, _initialize_chance_events,
\* initialize.  random.randint(1, sides) and np.random.randint(1, sides + 1)
\* raise on an empty range, and reading draw 0 of an empty array raises.
FixChance ==
    /\ pc = "fix"
    /\ IF sides < 1
       THEN /\ pc' = "error"
            /\ UNCHANGED <<roll, claim_nodes, level, draws_log, util_fresh, unreached_at_visit>>
       ELSE \E draws \in DrawArrays(variant, sides) :
              /\ roll' = draws
              /\ draws_log' = Append(draws_log, draws)
              /\ claim_nodes' = SeedRoot(claim_nodes, draws)
              /\ pc' = "fwd_response"
              /\ level' = 0
              /\ util_fresh' = {}
              /\ unreached_at_visit' = {}
    /\ UNCHANGED <<abandoned, variant, sides, iterations, iter, response_nodes, reset_count, lookup>>

ForwardResponse ==
    /\ pc = "fwd_response"
    /\ LET t == CASE variant = "FSICFR" ->
                       FSICFR_forward_response(response_nodes, claim_nodes, level, roll, sides)
                  [] variant = "FSICFR_refactored" ->
                       Refactored_forward_response(response_nodes, claim_nodes, level, roll, sides)
                  [] OTHER ->
                       forward_accumulate_response(variant, response_nodes, claim_nodes,
                                                   level, roll, sides)
           nxt == ForwardNext(variant, pc, level, sides)
       IN  /\ response_nodes' = t.r
           /\ claim_nodes' = t.c
           /\ pc' = nxt[1]
           /\ level' = nxt[2]
           /\ unreached_at_visit' = unreached_at_visit \cup
                  {k \in DOMAIN response_nodes :
                      k[2] = level /\ level > 0 /\ Unreached(response_nodes[k])}
    /\ UNCHANGED <<abandoned, variant, sides, iterations, iter, roll, reset_count, draws_log, lookup,
                   util_fresh>>

ForwardClaim ==
    /\ pc = "fwd_claim"
    /\ LET t == CASE variant = "FSICFR" ->
                       FSICFR_forward_claim(response_nodes, claim_nodes, level, roll, sides)
                  [] variant = "FSICFR_refactored" ->
                       Refactored_forward_claim(response_nodes, claim_nodes, level, roll, sides)
                  [] OTHER ->
                       forward_accumulate_claim(variant, response_nodes, claim_nodes,
                                                level, roll, sides)
           nxt == ForwardNext(variant, pc, level, sides)
       IN  /\ response_nodes' = t.r
           /\ claim_nodes' = t.c
           /\ pc' = nxt[1]
           /\ level' = nxt[2]
    /\ UNCHANGED <<abandoned, variant, sides, iterations, iter, roll, reset_count, draws_log, lookup,
                   util_fresh, unreached_at_visit>>

BackwardClaim ==
    /\ pc = "bwd_claim"
    /\ LET t == CASE variant = "FSICFR" ->
                       FSICFR_backward_claim(response_nodes, claim_nodes, level, roll, sides)
                  [] variant = "FSICFR_refactored" ->
                       Refactored_backward_claim(response_nodes, claim_nodes, level, roll, sides)
                  [] OTHER ->
                       backward_propagate_claim(response_nodes, claim_nodes, level, roll, sides)
           continues ==
                CASE variant = "FSICFR" ->
                       FSICFR_backward_claim_continues(claim_nodes, level, roll, sides)
                  [] variant = "FSICFR_refactored" ->
                       Refactored_backward_claim_continues(claim_nodes, level, roll, sides)
                  [] OTHER -> FALSE
           nxt == BackwardNext(pc, level, continues)
       IN  /\ response_nodes' = t.r
           /\ claim_nodes' = t.c
           /\ util_fresh' = util_fresh \cup
                  {<<"claim", k>> : k \in BackwardClaimVisits(variant, claim_nodes, level, roll, sides)}
           /\ pc' = nxt[1]
           /\ level' = nxt[2]
    /\ UNCHANGED <<abandoned, variant, sides, iterations, iter, roll, reset_count, draws_log, lookup,
                   unreached_at_visit>>

BackwardResponse ==
    /\ pc = "bwd_response"
    /\ LET t == CASE variant = "FSICFR" ->
                       FSICFR_backward_response(response_nodes, claim_nodes, level, roll, sides)
                  [] variant = "FSICFR_refactored" ->
                       Refactored_backward_response(response_nodes, claim_nodes, level, roll, sides)
                  [] OTHER ->
                       backward_propagate_response(response_nodes, claim_nodes, level, roll, sides)
           nxt == BackwardNext(pc, level, FALSE)
       IN  /\ response_nodes' = t.r
           /\ claim_nodes' = t.c
           /\ util_fresh' = util_fresh \cup
                  {<<"response", k>> : k \in BackwardResponseVisits(variant, response_nodes, level)}
           /\ pc' = nxt[1]
           /\ level' = nxt[2]
    /\ UNCHANGED <<abandoned, variant, sides, iterations, iter, roll, reset_count, draws_log, lookup,
                   unreached_at_visit>>

\* The midpoint check that ends an iteration, and the loop head.
ResetStrategySum ==
    /\ pc = "reset"
    /\ IF ResetDue(iter, iterations)
       THEN /\ response_nodes' = reset_all_strategy_sums(response_nodes)
            /\ claim_nodes' = reset_all_strategy_sums(claim_nodes)
            /\ reset_count' = reset_count + 1
       ELSE UNCHANGED <<response_nodes, claim_nodes, reset_count>>
    /\ iter' = iter + 1
    /\ pc' = LoopNext(iter, iterations)
    /\ UNCHANGED <<abandoned, variant, sides, iterations, level, roll, draws_log, lookup,
                   util_fresh, unreached_at_visit>>

Next ==
    \/ Construct
    \/ TrainStart
    \/ FixChance
    \/ ForwardResponse
    \/ ForwardClaim
    \/ BackwardClaim
    \/ BackwardResponse
    \/ ResetStrategySum

Spec == Init /\ [][Next]_vars

(***************************************************************************)
(* What the steps of liar_die.py and liar_die_copy.py read: the indices at *)
(* which a step reads fixed_roll, the levels whose claim node it looks up  *)
(* with the drawn outcome, and the keys of the response nodes it looks up. *)
(***************************************************************************)
\* Variant of fixed_roll_reads whose forward response step lacks the test
\* opponent_claim >= sides.
fixed_roll_reads_unguarded(step, opponent_claim, s) ==
    CASE step = "fix" -> {0}
      [] step = "fwd_response" ->
            IF opponent_claim = 0 THEN {} ELSE {opponent_claim}
      [] step \in {"fwd_claim", "bwd_claim"} ->
            IF opponent_claim >= s THEN {} ELSE {opponent_claim}
      [] step = "bwd_response" ->
            IF opponent_claim = 0 THEN {}
            ELSE (0..(opponent_claim - 1))
                    \cup (IF opponent_claim < s THEN {opponent_claim} ELSE {})
      [] OTHER -> {}

fixed_roll_reads(step, opponent_claim, s) ==
    CASE step = "fix" -> {0}
      [] step = "fwd_response" ->
            IF opponent_claim = 0 \/ opponent_claim >= s THEN {} ELSE {opponent_claim}
      [] step \in {"fwd_claim", "bwd_claim"} ->
            IF opponent_claim >= s THEN {} ELSE {opponent_claim}
      [] step = "bwd_response" ->
            IF opponent_claim = 0 THEN {}
            ELSE (0..(opponent_claim - 1))
                    \cup (IF opponent_claim < s THEN {opponent_claim} ELSE {})
      [] OTHER -> {}

\* claim_map.get_node([opponent_claim, fixed_roll[opponent_claim]]), and the
\* root [0, fixed_roll[0]] in initialize
claim_lookup_levels(step, opponent_claim, s) ==
    CASE step = "fix" -> {0}
      [] step = "fwd_response" ->
            IF opponent_claim = 0 \/ opponent_claim >= s THEN {} ELSE {opponent_claim}
      [] step \in {"fwd_claim", "bwd_claim"} ->
            IF opponent_claim >= s THEN {} ELSE {opponent_claim}
      [] step = "bwd_response" ->
            IF opponent_claim = 0 \/ opponent_claim >= s THEN {} ELSE {opponent_claim}
      [] OTHER -> {}

\* response_map.get_node([my_claim, opponent_claim]) in the response steps,
\* response_map.get_node([opponent_claim, my_claim]) in the claim steps
response_lookups(step, opponent_claim, s) ==
    CASE step \in {"fwd_response", "bwd_response"} ->
            {<<my_claim, opponent_claim>> : my_claim \in 0..(opponent_claim - 1)}
      [] step \in {"fwd_claim", "bwd_claim"} ->
            IF opponent_claim >= s THEN {}
            ELSE {<<opponent_claim, my_claim>> : my_claim \in (opponent_claim + 1)..s}
      [] OTHER -> {}

(***************************************************************************)
(* An abandoned iteration: an exception (a KeyboardInterrupt, say) ends    *)
(* train() after the forward pass of an iteration, before or during its    *)
(* backward pass; the trainer object stays as it is and train() is called  *)
(* on it again.                                                            *)
(***************************************************************************)
InitHeal ==
    /\ variant \in Variants
    /\ sides \in 1..MaxHealWork
    /\ iterations = 0
    /\ iter = 0
    /\ pc = "ready"
    /\ level = 0
    /\ roll = <<>>
    /\ response_nodes = Trainer_init(variant, sides).r
    /\ claim_nodes = Trainer_init(variant, sides).c
    /\ reset_count = 0
    /\ draws_log = <<>>
    /\ lookup = NoLookup
    /\ util_fresh = {}
    /\ unreached_at_visit = {}
    /\ abandoned = <<>>

\* train(iterations) on such a trainer
TrainHeal ==
    /\ TrainStart
    /\ sides * iterations' <= MaxHealWork

\* the exception
Abandon ==
    /\ pc \in {"bwd_claim", "bwd_response"}
    /\ abandoned = <<>>
    /\ abandoned' = roll
    /\ pc' = "ready"
    /\ UNCHANGED <<variant, sides, iterations, iter, level, roll, response_nodes,
                   claim_nodes, reset_count, draws_log, lookup, util_fresh,
                   unreached_at_visit>>

NextHeal ==
    \/ TrainHeal
    \/ FixChance
    \/ ForwardResponse
    \/ ForwardClaim
    \/ BackwardClaim
    \/ BackwardResponse
    \/ ResetStrategySum
    \/ Abandon

SpecHeal == InitHeal /\ [][NextHeal]_vars

(***************************************************************************)
(* Regret matching on its own: one node of the trainer's node class with   *)
(* any regret_sum vector, and one call of get_strategy on it.              *)
(***************************************************************************)
RegretValues == {<<i, 1>> : i \in (-MaxRegret)..MaxRegret}
RegretVectors == UNION {[1..n -> RegretValues] : n \in 1..MaxActions}
TheNode == <<0, 1>>

InitRM ==
    /\ variant \in Variants
    /\ sides = 0
    /\ iterations = 0
    /\ iter = 0
    /\ pc = "rm_call"
    /\ level = 0
    /\ roll = <<>>
    /\ response_nodes = NoNodes
    /\ \E regret_sum \in RegretVectors : \E my_reach \in {Zero, One} :
         claim_nodes = [k \in {TheNode} |->
                          [Node(Len(regret_sum)) EXCEPT !.regret_sum = regret_sum,
                                                        !.my_reach = my_reach]]
    /\ reset_count = 0
    /\ draws_log = <<>>
    /\ lookup = NoLookup
    /\ util_fresh = {}
    /\ unreached_at_visit = {}
    /\ abandoned = <<>>

CallGetStrategy ==
    /\ pc = "rm_call"
    /\ pc' = "rm_done"
    /\ claim_nodes' = [k \in DOMAIN claim_nodes |-> get_strategy(variant, claim_nodes[k])]
    /\ UNCHANGED <<abandoned, variant, sides, iterations, iter, level, roll, response_nodes,
                   reset_count, draws_log, lookup,
                   util_fresh, unreached_at_visit>>

NextRM == CallGetStrategy

SpecRM == InitRM /\ [][NextRM]_vars

(***************************************************************************)
(* train() as a function of sides, iterations and the draw arrays of its   *)
(* iterations: the loops of each trainer, written as recursion, around the *)
(* step operators above.                                                   *)
(***************************************************************************)
\* for opp_claim in range(sides + 1): response step, then claim step
\* (FSICFR.py, liar_die.py forward_accumulation, liar_die_copy.py)
RECURSIVE forward_accumulation(_, _, _, _, _)
forward_accumulation(v, t, opp_claim, rl, s) ==
    IF opp_claim > s THEN t
    ELSE LET t1 == IF v = "FSICFR"
                   THEN FSICFR_forward_response(t.r, t.c, opp_claim, rl, s)
                   ELSE forward_accumulate_response(v, t.r, t.c, opp_claim, rl, s)
             t2 == IF v = "FSICFR"
                   THEN FSICFR_forward_claim(t1.r, t1.c, opp_claim, rl, s)
                   ELSE forward_accumulate_claim(v, t1.r, t1.c, opp_claim, rl, s)
         IN  forward_accumulation(v, t2, opp_claim + 1, rl, s)

\* FSICFR_refactored.py _forward_pass: the two loops over range(sides + 1)
RECURSIVE Refactored_forward_response_levels(_, _, _, _)
Refactored_forward_response_levels(t, opp_clm, rl, s) ==
    IF opp_clm > s THEN t
    ELSE Refactored_forward_response_levels(
             Refactored_forward_response(t.r, t.c, opp_clm, rl, s), opp_clm + 1, rl, s)

RECURSIVE Refactored_forward_claim_levels(_, _, _, _)
Refactored_forward_claim_levels(t, opp_clm, rl, s) ==
    IF opp_clm > s THEN t
    ELSE Refactored_forward_claim_levels(
             Refactored_forward_claim(t.r, t.c, opp_clm, rl, s), opp_clm + 1, rl, s)

Refactored_forward_pass(t, rl, s) ==
    Refactored_forward_claim_levels(Refactored_forward_response_levels(t, 0, rl, s), 0, rl, s)

\* for opp_claim in range(sides, -1, -1): claim step, then response step; in
\* FSICFR.py and FSICFR_refactored.py the claim step may 'continue'.
RECURSIVE backward_propagation(_, _, _, _, _)
backward_propagation(v, t, opp_claim, rl, s) ==
    IF opp_claim < 0 THEN t
    ELSE LET fsicfr == v \in {"FSICFR", "FSICFR_refactored"}
             t1 == IF fsicfr
                   THEN IF FSICFR_backward_claim_continues(t.c, opp_claim, rl, s)
                        THEN t
                        ELSE FSICFR_backward_response(
                                 FSICFR_backward_claim(t.r, t.c, opp_claim, rl, s).r,
                                 FSICFR_backward_claim(t.r, t.c, opp_claim, rl, s).c,
                                 opp_claim, rl, s)
                   ELSE backward_propagate_response(
                            backward_propagate_claim(t.r, t.c, opp_claim, rl, s).r,
                            backward_propagate_claim(t.r, t.c, opp_claim, rl, s).c,
                            opp_claim, rl, s)
         IN  backward_propagation(v, t1, opp_claim - 1, rl, s)

\* The body of the loop of train(): one iteration with the draws rl.
TrainIteration(v, t, iteration, n, rl, s) ==
    LET seeded == [r |-> t.r, c |-> SeedRoot(t.c, rl)]
        forward == IF v = "FSICFR_refactored"
                   THEN Refactored_forward_pass(seeded, rl, s)
                   ELSE forward_accumulation(v, seeded, 0, rl, s)
        backward == backward_propagation(v, forward, s, rl, s)
    IN  IF ResetDue(iteration, n)
        THEN [r |-> reset_all_strategy_sums(backward.r),
              c |-> reset_all_strategy_sums(backward.c)]
        ELSE backward

\* for iteration in range(iterations), from iteration on
RECURSIVE TrainFrom(_, _, _, _, _, _)
TrainFrom(v, t, iteration, n, draws, s) ==
    IF iteration >= n THEN t
    ELSE TrainFrom(v, TrainIteration(v, t, iteration, n, draws[iteration + 1], s),
                   iteration + 1, n, draws, s)

\* LiarDieTrainer(s).train(n) with the draw arrays draws[1..n]
Train(v, s, n, draws) ==
    TrainFrom(v, [r |-> Trainer_init(v, s).r, c |-> Trainer_init(v, s).c], 0, n, draws, s)

(***************************************************************************)
(* Node lookup on a constructed trainer.  liar_die.py keeps its nodes in   *)
(* two SequentialStrategyManagerMap dictionaries and reads them with       *)
(* get_node; the other trainers keep them in numpy object arrays made by   *)
(* np.empty, whose unassigned cells hold None, and read them by indexing.  *)
(***************************************************************************)
\* Rows and columns of the node table of a trainer that uses arrays.
TableShape(v, table, s) ==
    IF v = "liar_die_copy" /\ table = "claim" THEN <<s, s + 1>>
                                              ELSE <<s + 1, s + 1>>

\* numpy indexing along an axis of length n: a negative index counts from
\* the end, an index outside -n..n-1 raises IndexError (-1 here).
ArrayIndex(i, n) ==
    IF i >= 0 /\ i < n THEN i
    ELSE IF i < 0 /\ i >= -n THEN i + n
    ELSE -1

\* nodes[i, j] on an object array
ArrayLookup(nodes, key, shape) ==
    LET i == ArrayIndex(key[1], shape[1])
        j == ArrayIndex(key[2], shape[2])
    IN  IF i < 0 \/ j < 0 THEN "IndexError"
        ELSE IF <<i, j>> \in DOMAIN nodes THEN "node"
        ELSE "None"

\* SequentialStrategyManagerMap.get_node: node_map.get(key, None)
get_node(nodes, key) == IF key \in DOMAIN nodes THEN "node" ELSE "None"

LookupNode(v, table, nodes, key, s) ==
    IF v = "liar_die" THEN get_node(nodes, key)
                      ELSE ArrayLookup(nodes, key, TableShape(v, table, s))

LookupKeys(s) == ((-1)..(s + 1)) \X ((-1)..(s + 1))

InitLookup ==
    /\ variant \in Variants
    /\ sides \in 1..MaxSides
    /\ iterations = 0
    /\ iter = 0
    /\ pc = "lookup_call"
    /\ level = 0
    /\ roll = <<>>
    /\ response_nodes = Trainer_init(variant, sides).r
    /\ claim_nodes = Trainer_init(variant, sides).c
    /\ reset_count = 0
    /\ draws_log = <<>>
    /\ \E table \in {"response", "claim"} : \E key \in LookupKeys(sides) :
         lookup = [table |-> table, key |-> key, result |-> "none"]
    /\ util_fresh = {}
    /\ unreached_at_visit = {}
    /\ abandoned = <<>>

Lookup ==
    /\ pc = "lookup_call"
    /\ pc' = "lookup_done"
    /\ lookup' = [lookup EXCEPT !.result =
                     LookupNode(variant, lookup.table,
                                IF lookup.table = "response" THEN response_nodes
                                                             ELSE claim_nodes,
                                lookup.key, sides)]
    /\ UNCHANGED <<abandoned, variant, sides, iterations, iter, level, roll, response_nodes,
                   claim_nodes, reset_count, draws_log,
                   util_fresh, unreached_at_visit>>

NextLookup == Lookup

SpecLookup == InitLookup /\ [][NextLookup]_vars

(***************************************************************************)
(* Properties.                                                             *)
(***************************************************************************)
FwdSteps == {"fwd_response", "fwd_claim"}
BwdSteps == {"bwd_claim", "bwd_response"}

ReachAllZero ==
    /\ \A k \in DOMAIN response_nodes : Unreached(response_nodes[k])
    /\ \A k \in DOMAIN claim_nodes : Unreached(claim_nodes[k])

AllStrategySumsZero ==
    /\ \A k \in DOMAIN response_nodes : AllZero(response_nodes[k].strategy_sum)
    /\ \A k \in DOMAIN claim_nodes : AllZero(claim_nodes[k].strategy_sum)

AllRegretSumsZero ==
    /\ \A k \in DOMAIN response_nodes : AllZero(response_nodes[k].regret_sum)
    /\ \A k \in DOMAIN claim_nodes : AllZero(claim_nodes[k].regret_sum)

\* C1: in FSICFR.py, liar_die.py and liar_die_copy.py, for sides >= 1, every
\* response node and every claim node has my_reach = 0 and opp_reach = 0 at
\* the start of each iteration (before the root is seeded) and at its end
\* (after the backward pass).
C1_ReachZeroBetweenIterations ==
    (/\ variant \in {"FSICFR", "liar_die", "liar_die_copy"}
     /\ sides >= 1
     /\ pc \in {"fix", "reset", "done"}) => ReachAllZero

\* A backward pass of FSICFR.py has run on a graph with two-action nodes and
\* has accumulated regret.
C1_Witness ==
    /\ variant = "FSICFR"
    /\ sides >= 2
    /\ pc = "reset"
    /\ iter >= 1
    /\ ~AllRegretSumsZero
    /\ ReachAllZero

\* The forward steps call get_strategy on every node of the level in
\* liar_die.py and liar_die_copy.py, and on the reached ones in FSICFR.py.
GetsStrategy(v, node) == v \in {"liar_die", "liar_die_copy"} \/ ~Unreached(node)

\* C2: for sides >= 1, in every iteration, the strategy of a node is
\* non-negative and sums to 1 right after get_strategy has recomputed it
\* (FSICFR.Node and both SequentialStrategyManager classes, as their
\* trainers call them).
C2_StrategyIsDistribution ==
    [][(variant \in {"FSICFR", "liar_die", "liar_die_copy"} /\ sides >= 1) =>
         /\ (pc = "fwd_response" /\ level > 0) =>
               \A k \in DOMAIN response_nodes :
                  (k[2] = level /\ GetsStrategy(variant, response_nodes[k]))
                     => IsProbabilityVector(response_nodes'[k].strategy)
         /\ (pc = "fwd_claim" /\ level < sides) =>
               (GetsStrategy(variant, claim_nodes[<<level, roll[level]>>])
                     => IsProbabilityVector(claim_nodes'[<<level, roll[level]>>].strategy))
      ]_vars

\* The response step of a level has just recomputed a two-action strategy of
\* liar_die_copy.py from a regret_sum with one positive and one non-positive
\* entry, and the strategy is not the uniform one.
C2_Witness ==
    /\ variant = "liar_die_copy"
    /\ pc = "fwd_claim"
    /\ level > 0
    /\ \E k \in DOMAIN response_nodes :
         /\ k[2] = level
         /\ response_nodes[k].num_actions = 2
         /\ IsProbabilityVector(response_nodes[k].strategy)
         /\ response_nodes[k].strategy[1] # response_nodes[k].strategy[2]

\* C3: get_strategy applied to any regret_sum vector yields
\* max(0, regret_sum[a]) / S when the sum S of the positive parts is > 0 and
\* 1 / num_actions for every a when no entry is strictly positive, in all
\* three implementations.
C3_RegretMatching ==
    pc = "rm_done" =>
        LET node == claim_nodes[TheNode]
            positive == Maximum0(node.regret_sum)
            S == VSum(positive)
        IN  node.strategy =
               [a \in 1..node.num_actions |->
                   IF RPos(S) THEN RDiv(positive[a], S) ELSE Rat(1, node.num_actions)]

\* C4: get_average_strategy yields strategy_sum divided by its total when
\* the total is > 0 and the uniform vector when the total is 0, so it is
\* non-negative and sums to 1 at any point of training, for FSICFR.Node and
\* both SequentialStrategyManager classes.
AverageStrategyAsSpecified(v, node) ==
    LET total == VSum(node.strategy_sum)
        avg == get_average_strategy(v, node)
    IN  /\ avg = [a \in 1..node.num_actions |->
                    IF RPos(total) THEN RDiv(node.strategy_sum[a], total)
                                   ELSE Rat(1, node.num_actions)]
        /\ IsProbabilityVector(avg)

C4_AverageStrategy ==
    pc \notin {"rm_call", "rm_done"} =>
        /\ \A k \in DOMAIN response_nodes :
              AverageStrategyAsSpecified(variant, response_nodes[k])
        /\ \A k \in DOMAIN claim_nodes :
              AverageStrategyAsSpecified(variant, claim_nodes[k])

\* C5: train(N) runs exactly N iterations and stops; inside an iteration the
\* steps come in the order chance fixing, forward pass (all levels), backward
\* pass (all levels), reset check, and the next iteration starts only after
\* the reset check; train(0) runs no step and leaves every regret_sum and
\* strategy_sum zero.
C5_StepOrder ==
    /\ pc = "ready" => /\ iter' = 0
                       /\ pc' = IF iterations' > 0 THEN "fix" ELSE "done"
    /\ pc = "fix" => pc' = "fwd_response" /\ level' = 0 /\ iter' = iter
    /\ pc \in FwdSteps =>
          /\ pc' \in FwdSteps \cup {"bwd_claim"}
          /\ iter' = iter
          /\ pc' = "bwd_claim" => (pc = "fwd_claim" /\ level = sides /\ level' = sides)
    /\ pc \in BwdSteps =>
          /\ pc' \in BwdSteps \cup {"reset"}
          /\ iter' = iter
          /\ pc' = "reset" => level = 0
    /\ pc = "reset" => /\ iter' = iter + 1
                       /\ pc' = IF iter' < iterations THEN "fix" ELSE "done"
    /\ pc # "done"

C5_TrainRunsIterationsInOrder ==
    /\ [][sides >= 1 /\ pc \notin {"rm_call", "rm_done"} => C5_StepOrder]_vars
    /\ []((sides >= 1 /\ pc \in {"fix", "reset"} \cup FwdSteps \cup BwdSteps)
             => iter < iterations)
    /\ []((sides >= 1 /\ pc = "done") =>
             /\ iter = iterations
             /\ iterations = 0 => (AllRegretSumsZero /\ AllStrategySumsZero))

\* train(2) has returned on a three-sided trainer.
C5_Witness ==
    /\ sides = 3
    /\ pc = "done"
    /\ iterations = 2
    /\ iter = 2
    /\ ~AllRegretSumsZero

\* C6: in a run of N >= 1 iterations the strategy_sum reset happens exactly
\* once, at the end of the iteration with index N // 2; right after it every
\* node's strategy_sum is all zero; at no other step does a strategy_sum
\* entry decrease.
C6_MidpointReset ==
    /\ [][(sides >= 1 /\ pc \notin {"new", "rm_call", "rm_done"}) =>
            IF pc = "reset" /\ iter = iterations \div 2
            THEN reset_count' = reset_count + 1 /\ AllStrategySumsZero'
            ELSE /\ reset_count' = reset_count
                 /\ \A k \in DOMAIN response_nodes :
                       \A a \in 1..response_nodes[k].num_actions :
                          RLeq(response_nodes[k].strategy_sum[a],
                               response_nodes'[k].strategy_sum[a])
                 /\ \A k \in DOMAIN claim_nodes :
                       \A a \in 1..claim_nodes[k].num_actions :
                          RLeq(claim_nodes[k].strategy_sum[a],
                               claim_nodes'[k].strategy_sum[a])
         ]_vars
    /\ []((sides >= 1 /\ pc = "done" /\ iterations >= 1) => reset_count = 1)

\* train(3) has returned: the reset happened once, after iteration 1, and
\* iteration 2 has accumulated strategy_sum again.
C6_Witness ==
    /\ sides >= 1
    /\ pc = "done"
    /\ iterations = 3
    /\ reset_count = 1
    /\ ~AllStrategySumsZero

\* C7: the regret_sum of a node changes only in the backward step that
\* visits this node: chance fixing, the forward steps (get_strategy) and the
\* strategy_sum reset leave every regret_sum as it is.
C7_RegretSumOnlyInBackwardStep ==
    [][/\ \A k \in DOMAIN response_nodes \cap DOMAIN response_nodes' :
             response_nodes'[k].regret_sum # response_nodes[k].regret_sum
                => (pc = "bwd_response" /\ k[2] = level)
       /\ \A k \in DOMAIN claim_nodes \cap DOMAIN claim_nodes' :
             claim_nodes'[k].regret_sum # claim_nodes[k].regret_sum
                => (pc = "bwd_claim" /\ level < sides /\ k = <<level, roll[level]>>)
      ]_vars

\* A run has ended after its strategy_sum reset and regret is still there.
C7_Witness ==
    /\ pc = "done"
    /\ reset_count = 1
    /\ AllStrategySumsZero
    /\ ~AllRegretSumsZero

\* C8: after construction with sides = n >= 1 the graph holds exactly the
\* response nodes (my, opp) with 0 <= my < opp <= n and the claim nodes
\* (opp, roll) with 0 <= opp < n and 1 <= roll <= n; a response node has 1
\* action when opp = n and 2 otherwise, a claim node n - opp actions; the
\* vectors of a node have that length; nothing of this changes in training.
ShapeOf(node, n) ==
    /\ node.num_actions = n
    /\ Len(node.regret_sum) = n
    /\ Len(node.strategy) = n
    /\ Len(node.strategy_sum) = n

C8_GraphShape ==
    (sides >= 1 /\ pc \notin {"new", "rm_call", "rm_done"}) =>
        /\ DOMAIN response_nodes = {k \in (0..sides) \X (0..sides) : k[1] < k[2]}
        /\ DOMAIN claim_nodes =
              {k \in (0..sides) \X (0..sides) : k[1] < sides /\ k[2] >= 1}
        /\ \A k \in DOMAIN response_nodes :
              ShapeOf(response_nodes[k], IF k[2] = sides THEN 1 ELSE 2)
        /\ \A k \in DOMAIN claim_nodes : ShapeOf(claim_nodes[k], sides - k[1])

\* A three-sided trainer has been trained.
C8_Witness ==
    /\ sides = 3
    /\ pc = "done"
    /\ iterations = 2
    /\ Cardinality(DOMAIN response_nodes) = 6
    /\ Cardinality(DOMAIN claim_nodes) = 9

\* C9: the chance fixer of every trainer produces sides + 1 draws, one per
\* level 0..sides, each in 1..sides, assigns my_reach = opp_reach = 1 on the
\* root claim node (0, draws[0]) and touches no other node; the forward and
\* backward steps of the iteration work on that draw array.
C9_ChanceFixer ==
    [][/\ (pc = "fix" /\ pc' # "error") =>
             /\ DOMAIN roll' = 0..sides
             /\ \A i \in DOMAIN roll' : roll'[i] \in 1..sides
             /\ claim_nodes' = [claim_nodes EXCEPT ![<<0, roll'[0]>>] =
                                   [@ EXCEPT !.my_reach = One, !.opp_reach = One]]
             /\ response_nodes' = response_nodes
       /\ pc \in FwdSteps \cup BwdSteps => roll' = roll
      ]_vars

\* C10: constructing a trainer of liar_die.py, FSICFR.py or
\* FSICFR_refactored.py with sides <= 0 fails at construction and builds no
\* node.
C10_NonPositiveSidesRejected ==
    (/\ variant \in {"liar_die", "FSICFR", "FSICFR_refactored"}
     /\ sides <= 0
     /\ pc \notin {"new", "rm_call", "rm_done"})
        => (pc = "error" /\ response_nodes = NoNodes /\ claim_nodes = NoNodes)

\* C11: looking up a response node or a claim node with a key outside the
\* valid domain (response (my, opp) with my >= opp, claim (opp, roll) with
\* roll = 0 or opp = sides, ...) fails with an error at the lookup; it never
\* yields a node or a None placeholder.
C11_InvalidLookupFails ==
    (/\ pc = "lookup_done"
     /\ lookup.key \notin (IF lookup.table = "response"
                           THEN {k \in (0..sides) \X (0..sides) : k[1] < k[2]}
                           ELSE (0..(sides - 1)) \X (1..sides)))
        => lookup.result = "IndexError"

C13_Scenario ==
    /\ sides = 2
    /\ iterations = 1
    /\ pc \in {"reset", "done"}
    /\ roll[0] = 2
    /\ roll[1] = 1
    /\ 2 \in DOMAIN roll => roll[2] = 1

C13_EndToEndScenario ==
    C13_Scenario =>
        LET root == claim_nodes[<<0, 2>>]
            child_utility == [a \in 1..2 |-> RNeg(response_nodes[<<0, a>>].util)]
            node_utility == RMul(Rat(1, 2), RAdd(child_utility[1], child_utility[2]))
        IN  /\ root.num_actions = 2
            /\ root.strategy = <<Rat(1, 2), Rat(1, 2)>>
            /\ root.my_reach = Zero
            /\ root.opp_reach = Zero
            /\ \A a \in 1..2 :
                  root.regret_sum[a] = RMul(One, RSub(child_utility[a], node_utility))

\* The scenario has run in FSICFR.py and the root has regret.
C13_Witness ==
    /\ C13_Scenario
    /\ variant = "FSICFR"
    /\ pc = "done"
    /\ claim_nodes[<<0, 2>>].regret_sum[1] # Zero
    /\ claim_nodes[<<0, 2>>].util # Zero

\* C14: with sides = 1 the graph holds exactly one claim node (0, 1) and
\* exactly one response node (0, 1), each with one action, and in any
\* iteration every strategy computed at these nodes is [1.0]: a step changes
\* a strategy to [1.0] only, the claim step of level 0 computes the root's
\* strategy, and the response step of level 1 computes the response node's
\* (FSICFR_refactored.py does not compute a strategy at the last level).
C14_SingleSide ==
    [][(sides = 1 /\ pc \in {"ready", "fix", "reset", "done"} \cup FwdSteps \cup BwdSteps) =>
         /\ DOMAIN response_nodes = {<<0, 1>>}
         /\ DOMAIN claim_nodes = {<<0, 1>>}
         /\ response_nodes[<<0, 1>>].num_actions = 1
         /\ claim_nodes[<<0, 1>>].num_actions = 1
         /\ response_nodes'[<<0, 1>>].strategy \in {response_nodes[<<0, 1>>].strategy, <<One>>}
         /\ claim_nodes'[<<0, 1>>].strategy \in {claim_nodes[<<0, 1>>].strategy, <<One>>}
         /\ (pc = "fwd_claim" /\ level = 0) => claim_nodes'[<<0, 1>>].strategy = <<One>>
         /\ (pc = "fwd_response" /\ level = 1 /\ variant # "FSICFR_refactored")
               => response_nodes'[<<0, 1>>].strategy = <<One>>
      ]_vars

\* Three iterations have run on a one-sided die.
C14_Witness ==
    /\ sides = 1
    /\ pc = "done"
    /\ iterations = 3
    /\ response_nodes[<<0, 1>>].strategy = <<One>>
    /\ claim_nodes[<<0, 1>>].strategy = <<One>>
    /\ ~AllStrategySumsZero

\* The my_reach the response nodes (my, L), my < L, hold when the response
\* step of level L starts, and the part of it the step forwards.
ReceivedMass(L) ==
    SumTo([m \in 1..L |-> response_nodes[<<m - 1, L>>].my_reach], L)
ForwardedMass(L) ==
    SumTo([m \in 1..L |-> RMul(response_nodes'[<<m - 1, L>>].strategy[ACCEPT + 1],
                               response_nodes[<<m - 1, L>>].my_reach)], L)

\* C15: conservation in the forward pass.  For every level L with
\* 0 < L < sides, the my_reach forwarded by the response step of level L from
\* the response nodes (my, L) into the claim node of level L (the sum of
\* strategy[ACCEPT] * my_reach) never exceeds the my_reach these response
\* nodes received, and the claim node's my_reach after the step equals the
\* forwarded sum.
C15_ForwardConservation ==
    [][(/\ variant \in {"FSICFR", "liar_die", "liar_die_copy"}
        /\ pc = "fwd_response" /\ level > 0 /\ level < sides) =>
         /\ RLeq(ForwardedMass(level), ReceivedMass(level))
         /\ claim_nodes'[<<level, roll[level]>>].my_reach = ForwardedMass(level)
      ]_vars

\* The response step of a level has forwarded a part, but not all, of the
\* my_reach of its response nodes.
C15_Witness ==
    /\ variant = "FSICFR"
    /\ pc = "fwd_claim"
    /\ level > 0
    /\ level < sides
    /\ RPos(claim_nodes[<<level, roll[level]>>].my_reach)
    /\ claim_nodes[<<level, roll[level]>>].my_reach # ReceivedMass(level)
    /\ iter >= 1

\* The forward steps this iteration has behind it: the response step of
\* level L (the forward visit of the response nodes (my, L)) and the claim
\* step of level L (the forward visit of the claim node of level L).
ResponseStepDone(L) ==
    \/ pc = "fwd_response" /\ level > L
    \/ pc = "fwd_claim" /\ (variant = "FSICFR_refactored" \/ level >= L)
ClaimStepDone(L) ==
    \/ pc = "fwd_claim" /\ level > L
    \/ pc = "fwd_response" /\ variant # "FSICFR_refactored" /\ level > L

ReachOf(node) == <<node.my_reach, node.opp_reach>>

\* C16: the forward pass is topological in FSICFR.py, FSICFR_refactored.py
\* and liar_die.py: the levels are visited in increasing order 0..sides with
\* the response step of a level before its claim step, and no reach is added
\* to a node after its own forward visit.
C16_ForwardTopological ==
    [][(/\ variant \in {"FSICFR", "FSICFR_refactored", "liar_die"}
        /\ sides >= 1
        /\ pc \in FwdSteps) =>
         /\ \A k \in DOMAIN response_nodes :
               ReachOf(response_nodes'[k]) # ReachOf(response_nodes[k])
                  => ~ResponseStepDone(k[2])
         /\ \A k \in DOMAIN claim_nodes :
               ReachOf(claim_nodes'[k]) # ReachOf(claim_nodes[k])
                  => ~ClaimStepDone(k[1])
         /\ pc = "fwd_response" => (pc' = "fwd_claim" /\ level' = level)
         /\ (pc = "fwd_claim" /\ level < sides)
               => (pc' = "fwd_response" /\ level' = level + 1)
      ]_vars

\* Who reads which utility in a backward step: a visited claim node of level
\* L reads response (L, L').utility for every L' > L, a visited response
\* node of a level L < sides reads the utility of the claim node of level L.
C17_UtilitiesRead ==
    IF pc = "bwd_claim"
    THEN {<<"response", <<level, level + a>>>> :
              a \in IF BackwardClaimVisits(variant, claim_nodes, level, roll, sides) = {}
                    THEN {} ELSE 1..(sides - level)}
    ELSE IF pc = "bwd_response" /\ level < sides
              /\ BackwardResponseVisits(variant, response_nodes, level) # {}
    THEN {<<"claim", <<level, roll[level]>>>>}
    ELSE {}

\* C17: the backward pass is children before parents within the iteration:
\* in FSICFR.py and liar_die.py every child utility a backward step reads was
\* computed earlier in the backward pass of the same iteration; no utility
\* left over from a previous iteration is read.
C17_BackwardChildrenFirst ==
    [][(variant \in {"FSICFR", "liar_die"} /\ sides >= 1 /\ pc \in BwdSteps)
          => C17_UtilitiesRead \subseteq util_fresh]_vars

\* C18: the forward claim step swaps the reach roles in FSICFR.py,
\* liar_die.py and liar_die_copy.py: for the claim node of level L and every
\* higher level L' with a non-zero claim probability, response node (L, L')
\* gets my_reach increased by the claim node's opp_reach and opp_reach
\* increased by (claim probability for L') * (the claim node's my_reach);
\* a response node whose claim probability is 0 receives nothing.
C18_ClaimStepSwapsRoles ==
    [][(/\ variant \in {"FSICFR", "liar_die", "liar_die_copy"}
        /\ sides >= 1
        /\ pc = "fwd_claim" /\ level < sides) =>
         LET node == claim_nodes[<<level, roll[level]>>]
             action_prob == claim_nodes'[<<level, roll[level]>>].strategy
         IN  \A k \in DOMAIN response_nodes :
                ReachOf(response_nodes'[k]) =
                   IF k[1] = level /\ action_prob[k[2] - level] # Zero
                   THEN <<RAdd(response_nodes[k].my_reach, node.opp_reach),
                          RAdd(response_nodes[k].opp_reach,
                               RMul(action_prob[k[2] - level], node.my_reach))>>
                   ELSE ReachOf(response_nodes[k])
      ]_vars

\* The opp_reach the response nodes (my, L), my < L, hold.
ForwardedOppMass(L) ==
    SumTo([m \in 1..L |-> response_nodes[<<m - 1, L>>].opp_reach], L)

\* The forward response step of a level: nothing at level 0; at a level
\* 0 < L < sides the claim node (L, draws[L]) and no other node receives
\* strategy[ACCEPT] * my_reach and opp_reach of every response node (my, L);
\* at level sides nothing is pushed.
C19_ResponseStepPushes ==
    (pc = "fwd_response") =>
        /\ level = 0 => (response_nodes' = response_nodes /\ claim_nodes' = claim_nodes)
        /\ \A k \in DOMAIN response_nodes :
              ReachOf(response_nodes'[k]) = ReachOf(response_nodes[k])
        /\ \A k \in DOMAIN claim_nodes :
              ReachOf(claim_nodes'[k]) =
                 IF level > 0 /\ level < sides /\ k = <<level, roll[level]>>
                 THEN <<RAdd(claim_nodes[k].my_reach, ForwardedMass(level)),
                        RAdd(claim_nodes[k].opp_reach, ForwardedOppMass(level))>>
                 ELSE ReachOf(claim_nodes[k])

\* The regret_sum and strategy_sum of the response nodes found unreached at
\* their forward response step of this iteration stay as they are.
C19_UnreachedUntouched ==
    \A k \in unreached_at_visit \cup unreached_at_visit' :
        /\ response_nodes'[k].regret_sum = response_nodes[k].regret_sum
        /\ response_nodes'[k].strategy_sum = response_nodes[k].strategy_sum

\* C19 as stated: the forward response step is skipped at level 0, pushes
\* at a level 0 < L < sides into claim node (L, draws[L]) only, pushes
\* nothing at level sides; a response node with my_reach = opp_reach = 0
\* contributes nothing and its regret_sum and strategy_sum are left unchanged
\* by the whole iteration (forward pass, backward pass and reset check).
C19_ForwardResponseStep_Original ==
    [][(variant \in {"FSICFR", "liar_die"} /\ sides >= 1) =>
         /\ C19_ResponseStepPushes
         /\ pc \in FwdSteps \cup BwdSteps \cup {"reset"} => C19_UnreachedUntouched
      ]_vars

\* C19 amended: as stated, but the regret_sum and strategy_sum of a response
\* node with my_reach = opp_reach = 0 are left unchanged by the forward and
\* the backward pass of the iteration; the strategy_sum reset at the end of
\* iteration N // 2 zeroes its strategy_sum like every other.
C19_ForwardResponseStep ==
    [][(variant \in {"FSICFR", "liar_die"} /\ sides >= 1) =>
         /\ C19_ResponseStepPushes
         /\ pc \in FwdSteps \cup BwdSteps => C19_UnreachedUntouched
      ]_vars

\* liar_die.py has finished the passes of a later iteration in which a
\* response node below the last level, with strategy_sum from an earlier
\* iteration, was found unreached.
C19_Witness ==
    /\ variant = "liar_die"
    /\ pc = "reset"
    /\ iter >= 1
    /\ \E k \in unreached_at_visit :
          /\ k[2] < sides
          /\ ~AllZero(response_nodes[k].strategy_sum)
          /\ ~AllZero(response_nodes[k].regret_sum)

\* C20: the backward claim step of FSICFR.py and liar_die.py on the claim
\* node of a level L < sides (in FSICFR.py, when the node was reached; an
\* unreached one is skipped and has nothing to accumulate):
\* child_utility[a] is the negated utility of response node (L, L + 1 + a),
\* the node's utility is the sum of strategy[a] * child_utility[a] with the
\* strategy computed in this iteration's forward pass, regret_sum[a] grows
\* by opp_reach * (child_utility[a] - utility) with opp_reach as it was
\* before the step, and afterwards my_reach = opp_reach = 0.
C20_BackwardClaimStep ==
    [][(/\ variant \in {"FSICFR", "liar_die"}
        /\ sides >= 1
        /\ pc = "bwd_claim" /\ level < sides) =>
         LET k == <<level, roll[level]>>
             node == claim_nodes[k]
             child_utility == [a \in 1..(sides - level) |->
                                  RNeg(response_nodes[<<level, level + a>>].util)]
             node_utility == VSum([a \in 1..(sides - level) |->
                                      RMul(node.strategy[a], child_utility[a])])
         IN  /\ Unreached(claim_nodes'[k])
             /\ response_nodes' = response_nodes
             /\ \A j \in DOMAIN claim_nodes : j # k => claim_nodes'[j] = claim_nodes[j]
             /\ claim_nodes'[k].strategy = node.strategy
             /\ \A a \in 1..(sides - level) :
                   claim_nodes'[k].regret_sum[a] =
                      RAdd(node.regret_sum[a],
                           RMul(node.opp_reach, RSub(child_utility[a], node_utility)))
             /\ k \in BackwardClaimVisits(variant, claim_nodes, level, roll, sides) =>
                   /\ node.strategy = get_strategy(variant, node).strategy
                   /\ claim_nodes'[k].util = node_utility
      ]_vars

\* The backward claim step has just accumulated regret on a reached claim
\* node above the root in an iteration after the first.
C20_Witness ==
    /\ variant = "FSICFR"
    /\ pc = "bwd_response"
    /\ level >= 1
    /\ level < sides
    /\ iter >= 1
    /\ <<"claim", <<level, roll[level]>>>> \in util_fresh
    /\ Unreached(claim_nodes[<<level, roll[level]>>])
    /\ claim_nodes[<<level, roll[level]>>].util # Zero
    /\ ~AllZero(claim_nodes[<<level, roll[level]>>].regret_sum)

\* C21: the decline utility of the backward response step.  For every
\* response node (my, opp) the step processes, the utility of DOUBT is +1 if
\* opp > draws[my] and -1 otherwise (the outcome fixed for the node's own
\* level my): a one-action node gets the utility strategy[DOUBT] * that
\* value, and regret_sum[DOUBT] grows by opp_reach * (that value - utility).
\* Stated for FSICFR.py, liar_die.py and liar_die_copy.py.
C21_DeclineUtility ==
    [][(/\ variant \in {"FSICFR", "liar_die", "liar_die_copy"}
        /\ sides >= 1
        /\ pc = "bwd_response") =>
         \A k \in BackwardResponseVisits(variant, response_nodes, level) :
            LET node == response_nodes[k]
                doubt_util == IF k[2] > roll[k[1]] THEN One ELSE RNeg(One)
            IN  /\ node.num_actions = 1 =>
                      response_nodes'[k].util = RMul(node.strategy[DOUBT + 1], doubt_util)
                /\ response_nodes'[k].regret_sum[DOUBT + 1] =
                      RAdd(node.regret_sum[DOUBT + 1],
                           RMul(node.opp_reach,
                                RSub(doubt_util, response_nodes'[k].util)))
      ]_vars

\* C22: the sign flip on the accept edge.  For every response node (my, L)
\* with L < sides the backward response step processes, the utility used for
\* ACCEPT is the negation of the utility of claim node (L, draws[L]), which
\* the backward pass of the same iteration has computed: regret_sum[ACCEPT]
\* grows by opp_reach * (-(claim utility) - utility).  Stated for FSICFR.py,
\* liar_die.py and liar_die_copy.py.
C22_AcceptUtilityNegated ==
    [][(/\ variant \in {"FSICFR", "liar_die", "liar_die_copy"}
        /\ sides >= 1
        /\ pc = "bwd_response" /\ level < sides) =>
         \A k \in BackwardResponseVisits(variant, response_nodes, level) :
            LET node == response_nodes[k]
                accept_util == RNeg(claim_nodes[<<level, roll[level]>>].util)
            IN  /\ <<"claim", <<level, roll[level]>>>> \in util_fresh
                /\ response_nodes'[k].regret_sum[ACCEPT + 1] =
                      RAdd(node.regret_sum[ACCEPT + 1],
                           RMul(node.opp_reach,
                                RSub(accept_util, response_nodes'[k].util)))
      ]_vars

\* The forward step that calls get_strategy on a node: the response step of
\* level opp for response node (my, opp), the claim step of level L for the
\* claim node (L, draws[L]); FSICFR.py leaves out unreached nodes.
CallsGetStrategyOnResponse(k) ==
    /\ pc = "fwd_response"
    /\ level > 0
    /\ k[2] = level
    /\ GetsStrategy(variant, response_nodes[k])
CallsGetStrategyOnClaim(k) ==
    /\ pc = "fwd_claim"
    /\ level < sides
    /\ k = <<level, roll[level]>>
    /\ GetsStrategy(variant, claim_nodes[k])

\* What one call of get_strategy on a node with this my_reach adds.
C23_OneCall(before, after) ==
    /\ after.strategy = get_strategy(variant, before).strategy
    /\ after.strategy_sum =
          [a \in 1..before.num_actions |->
              RAdd(before.strategy_sum[a], RMul(before.my_reach, after.strategy[a]))]
C23_NoCall(before, after) ==
    /\ after.strategy = before.strategy
    /\ after.strategy_sum = before.strategy_sum

\* The steps of one iteration after the chance draws: what get_strategy is
\* called on and what happens to strategy and strategy_sum in the steps named
\* by the set.
C23_Steps(steps) ==
    (/\ variant \in {"FSICFR", "liar_die"}
     /\ sides >= 1
     /\ pc \in steps) =>
         /\ \A k \in DOMAIN response_nodes :
               /\ IF CallsGetStrategyOnResponse(k)
                  THEN C23_OneCall(response_nodes[k], response_nodes'[k])
                  ELSE C23_NoCall(response_nodes[k], response_nodes'[k])
               /\ (pc = "fwd_response" /\ level = k[2] /\ ~Unreached(response_nodes[k]))
                     => CallsGetStrategyOnResponse(k)
               /\ (pc \in FwdSteps /\ ResponseStepDone(k[2]))
                     => response_nodes'[k].my_reach = response_nodes[k].my_reach
         /\ \A k \in DOMAIN claim_nodes :
               /\ IF CallsGetStrategyOnClaim(k)
                  THEN C23_OneCall(claim_nodes[k], claim_nodes'[k])
                  ELSE C23_NoCall(claim_nodes[k], claim_nodes'[k])
               /\ (pc = "fwd_claim" /\ level = k[1] /\ ~Unreached(claim_nodes[k]))
                     => CallsGetStrategyOnClaim(k)
               /\ (pc \in FwdSteps /\ ClaimStepDone(k[1]))
                     => claim_nodes'[k].my_reach = claim_nodes[k].my_reach
         /\ pc = "fwd_response" => (pc' = "fwd_claim" /\ level' = level)
         /\ (pc = "fwd_claim" /\ level < sides)
               => (pc' = "fwd_response" /\ level' = level + 1)
         /\ (pc = "fwd_claim" /\ level = sides) => pc' \in BwdSteps
         /\ pc \in BwdSteps => pc' \in BwdSteps \cup {"reset"}

\* C23 as stated: within one iteration get_strategy is invoked at most once
\* on a node and exactly once on every node that holds reach when its level
\* is visited, so that the whole iteration (forward pass, backward pass and
\* reset check) changes a node's strategy_sum by one call's worth,
\* my_reach * strategy with the node's final my_reach, and by nothing when
\* get_strategy was not called on it.
C23_GetStrategyOncePerIteration_Original ==
    [][C23_Steps(FwdSteps \cup BwdSteps \cup {"reset"})]_vars

\* C23 amended: as stated for the forward and the backward pass of FSICFR.py
\* and liar_die.py: the forward steps visit each level once in increasing
\* order, a step changes strategy and strategy_sum of the nodes it calls
\* get_strategy on by one call's worth, my_reach * strategy, the my_reach of
\* a visited node is final, and no other step of the passes changes a
\* strategy or a strategy_sum; the strategy_sum reset at the end of iteration
\* N // 2 zeroes every strategy_sum.
C23_GetStrategyOncePerIteration ==
    [][C23_Steps(FwdSteps \cup BwdSteps)]_vars

\* The response step of a level of a later iteration has called get_strategy
\* on a reached node with a non-uniform strategy and has left out (FSICFR.py)
\* an unreached one.
C23_Witness ==
    /\ variant = "FSICFR"
    /\ pc = "fwd_claim"
    /\ iter >= 1
    /\ level >= 1
    /\ \E k \in DOMAIN response_nodes :
          /\ k[2] = level
          /\ RPos(response_nodes[k].my_reach)
          /\ response_nodes[k].num_actions = 2
          /\ response_nodes[k].strategy[1] # response_nodes[k].strategy[2]
    /\ \E k \in unreached_at_visit : k[2] = level

\* C24 as stated: an iteration was abandoned after its forward pass, and the
\* next complete iteration has run its passes to the end, whatever its
\* draws: every node's my_reach and opp_reach is 0 again.
C24_SelfHealing_Original ==
    (/\ variant \in {"FSICFR", "liar_die"}
     /\ abandoned # <<>>
     /\ pc = "reset"
     /\ iter = 0) => ReachAllZero

\* C24 amended: the same when the next complete iteration draws the outcomes
\* the abandoned one drew; a claim node of an outcome it does not draw keeps
\* the reach the abandoned iteration left on it.
C24_SelfHealing ==
    (/\ variant \in {"FSICFR", "liar_die"}
     /\ abandoned # <<>>
     /\ pc = "reset"
     /\ iter = 0
     /\ roll = abandoned) => ReachAllZero

\* FSICFR.py, with a die of two sides, has run the passes of the iteration
\* that follows an abandoned one to their end, with the draws of the
\* abandoned one, and regret has been accumulated.
C24_Witness ==
    /\ variant = "FSICFR"
    /\ sides = 2
    /\ abandoned # <<>>
    /\ pc = "reset"
    /\ iter = 0
    /\ roll = abandoned
    /\ ReachAllZero
    /\ ~AllRegretSumsZero

IsProbability(x) == RLeq(Zero, x) /\ RLeq(x, One)

NodesOfTraining ==
    {response_nodes[k] : k \in DOMAIN response_nodes}
       \cup {claim_nodes[k] : k \in DOMAIN claim_nodes}

\* C25 as stated: in every state of training with FSICFR.py and liar_die.py,
\* for every sides >= 1, every node's my_reach and opp_reach lie in the
\* interval [0, 1].
C25_ReachIsProbability_Original ==
    (variant \in {"FSICFR", "liar_die"} /\ sides >= 1) =>
        \A node \in NodesOfTraining :
            IsProbability(node.my_reach) /\ IsProbability(node.opp_reach)

\* C25 amended: in every state of training with FSICFR.py and liar_die.py
\* every node's my_reach and opp_reach are at least 0, and at most 1 when
\* sides <= 2; with sides >= 3 a claim node with several response-node
\* parents adds up their reach and can hold more than 1.
C25_ReachIsProbability ==
    (variant \in {"FSICFR", "liar_die"} /\ sides >= 1) =>
        \A node \in NodesOfTraining :
            /\ RLeq(Zero, node.my_reach)
            /\ RLeq(Zero, node.opp_reach)
            /\ sides <= 2 =>
                  (RLeq(node.my_reach, One) /\ RLeq(node.opp_reach, One))

\* liar_die.py with a die of three sides: the claim node of level 2 has got
\* reach from both of its response-node parents, more than 1 in all.
C25_Witness ==
    /\ variant = "liar_die"
    /\ sides = 3
    /\ pc = "fwd_claim"
    /\ level = 2
    /\ ~Unreached(response_nodes[<<0, 2>>])
    /\ ~Unreached(response_nodes[<<1, 2>>])
    /\ ~RLeq(claim_nodes[<<2, roll[2]>>].opp_reach, One)

\* The fields of a node that training leaves behind.
Learned(node) ==
    [regret_sum |-> node.regret_sum, strategy |-> node.strategy,
     strategy_sum |-> node.strategy_sum, util |-> node.util]

\* C26: FSICFR_refactored.LiarDieTrainer.train is behaviourally equivalent
\* to FSICFR.LiarDieTrainer.train: when a run of the refactored trainer has
\* ended, each response node and claim node has the regret_sum, strategy,
\* strategy_sum and utility that FSICFR.py ends with for the same sides,
\* iterations and chance draws, and my_reach = opp_reach = 0.
C26_RefactoringEquivalent ==
    (/\ variant = "FSICFR_refactored"
     /\ sides >= 1
     /\ pc = "done") =>
        LET t == Train("FSICFR", sides, iterations, draws_log)
        IN  /\ DOMAIN response_nodes = DOMAIN t.r
            /\ DOMAIN claim_nodes = DOMAIN t.c
            /\ \A k \in DOMAIN response_nodes :
                  Learned(response_nodes[k]) = Learned(t.r[k])
            /\ \A k \in DOMAIN claim_nodes :
                  Learned(claim_nodes[k]) = Learned(t.c[k])
            /\ ReachAllZero

SomePositive(vec) == \E a \in 1..Len(vec) : RPos(vec[a])

\* C27: in every reachable state of training in FSICFR.py and
\* liar_die_copy.py each node's regret_sum is either all zeros or has a
\* strictly positive entry, so that the test "all regrets are exactly zero"
\* and the test "no regret is positive" agree on it, and the strategy the
\* backward pass uses on a node it visits is a probability vector.
C27_RegretZeroOrPositive ==
    (variant \in {"FSICFR", "liar_die_copy"} /\ sides >= 1) =>
        /\ \A node \in NodesOfTraining :
              /\ AllZero(node.regret_sum) \/ SomePositive(node.regret_sum)
              /\ AllZero(node.regret_sum) <=> ~SomePositive(node.regret_sum)
        /\ pc = "bwd_claim" =>
              \A k \in BackwardClaimVisits(variant, claim_nodes, level, roll, sides) :
                  IsProbabilityVector(claim_nodes[k].strategy)
        /\ pc = "bwd_response" =>
              \A k \in BackwardResponseVisits(variant, response_nodes, level) :
                  IsProbabilityVector(response_nodes[k].strategy)

\* The backward response step of a later iteration of liar_die_copy.py is
\* about to visit a node with a negative and a positive regret, while
\* another node of two actions still has no regret at all.
C27_Witness ==
    /\ variant = "liar_die_copy"
    /\ pc = "bwd_response"
    /\ iter >= 1
    /\ \E k \in BackwardResponseVisits(variant, response_nodes, level) :
          /\ SomePositive(response_nodes[k].regret_sum)
          /\ \E a \in 1..response_nodes[k].num_actions :
                ~RLeq(Zero, response_nodes[k].regret_sum[a])
    /\ \E node \in NodesOfTraining :
          node.num_actions >= 2 /\ AllZero(node.regret_sum)

\* C28: in FSICFR.py, FSICFR_refactored.py and liar_die.py the regret_sum of
\* every node with num_actions = 1 (response nodes with opp = sides, claim
\* nodes with opp = sides - 1) stays exactly [0], after any number of
\* iterations and any draws.
C28_SingleActionNoRegret ==
    (variant \in {"FSICFR", "FSICFR_refactored", "liar_die"} /\ sides >= 1) =>
        /\ \A k \in DOMAIN response_nodes :
              (response_nodes[k].num_actions = 1 <=> k[2] = sides)
        /\ \A k \in DOMAIN claim_nodes :
              (claim_nodes[k].num_actions = 1 <=> k[1] = sides - 1)
        /\ \A node \in NodesOfTraining :
              node.num_actions = 1 => node.regret_sum = <<Zero>>

Two == <<2, 1>>

RAbsLeq(x, bound) == RLeq(RNeg(bound), x) /\ RLeq(x, bound)

\* What a backward step adds to regret_sum is opp_reach times a regret entry
\* action_utility[a] - node_utility of absolute value at most 2.
C29_RegretEntryBounded(before, after) ==
    \A a \in 1..before.num_actions :
        RAbsLeq(RSub(after.regret_sum[a], before.regret_sum[a]),
                RMul(Two, before.opp_reach))

\* C29: in every reachable state of training, with any of the trainers,
\* every node's utility lies in [-1, 1], and every regret entry
\* action_utility[a] - node_utility that a backward step weights by
\* opp_reach and adds to regret_sum lies in [-2, 2].
C29_UtilityBounded ==
    [][(variant \in Variants /\ sides >= 1) =>
         /\ \A node \in NodesOfTraining : RAbsLeq(node.util, One)
         /\ pc \in BwdSteps =>
               /\ \A k \in DOMAIN response_nodes :
                     C29_RegretEntryBounded(response_nodes[k], response_nodes'[k])
               /\ \A k \in DOMAIN claim_nodes :
                     C29_RegretEntryBounded(claim_nodes[k], claim_nodes'[k])
      ]_vars

\* A backward claim step of liar_die.py has given a claim node of several
\* actions a utility strictly between -1 and 1 and regret to some action.
C29_Witness ==
    /\ variant = "liar_die"
    /\ pc = "bwd_response"
    /\ \E k \in DOMAIN claim_nodes :
          /\ <<"claim", k>> \in util_fresh
          /\ claim_nodes[k].num_actions >= 2
          /\ claim_nodes[k].util # Zero
          /\ ~RAbsLeq(One, claim_nodes[k].util)
          /\ ~RAbsLeq(claim_nodes[k].util, Zero)
          /\ SomePositive(claim_nodes[k].regret_sum)

\* C30: in liar_die.py and liar_die_copy.py, whose chance fixer draws the
\* outcomes of the indices 0..sides-1 only, every index at which a step of
\* the forward or the backward pass reads the draw array is within
\* 0..sides-1, for every sides >= 1, and every node a step looks up, with a
\* drawn outcome or without, exists.
C30_DrawReadsInRange ==
    (/\ variant \in {"liar_die", "liar_die_copy"}
     /\ sides >= 1
     /\ pc \in FwdSteps \cup BwdSteps) =>
        /\ DOMAIN roll = 0..(sides - 1)
        /\ fixed_roll_reads("fix", 0, sides) \subseteq DOMAIN roll
        /\ fixed_roll_reads(pc, level, sides) \subseteq DOMAIN roll
        /\ \A L \in (claim_lookup_levels("fix", 0, sides)
                        \cup claim_lookup_levels(pc, level, sides)) \cap DOMAIN roll :
              LookupNode(variant, "claim", claim_nodes, <<L, roll[L]>>, sides) = "node"
        /\ \A k \in response_lookups(pc, level, sides) :
              LookupNode(variant, "response", response_nodes, k, sides) = "node"

\* liar_die_copy.py, with a die of three sides, is about to run the backward
\* response step of the last level of a later iteration, which reads the
\* draws of the levels 0, 1, 2 and no draw of level 3.
C30_Witness ==
    /\ variant = "liar_die_copy"
    /\ sides = 3
    /\ iter >= 1
    /\ pc = "bwd_response"
    /\ level = sides
    /\ fixed_roll_reads(pc, level, sides) = {0, 1, 2}
    /\ roll[0] # roll[1]

====
